---------------------------- MODULE Spec2Model ----------------------------
(***************************************************************************)
(* A model of src/script.js, the script of the "Sound of Melting Glaciers" *)
(* page: the melt counters driven by a 1-second interval timer, the audio  *)
(* toggle of the background video and the Google Maps callback.            *)
(*                                                                         *)
(* JavaScript numbers are modelled as exact rationals over arbitrary       *)
(* precision integers (sequences of limbs, least significant first), so    *)
(* that the values of the counters, which exceed 2^31, can be computed.    *)
(* The rounding error of IEEE-754 doubles is not modelled.                 *)
(***************************************************************************)
EXTENDS Integers, Sequences, FiniteSets, TLC

(***************************************************************************)
(* Natural numbers of any size: a sequence of limbs in 0..Base-1, least    *)
(* significant first, with no most significant zero; <<>> is 0.            *)
(***************************************************************************)
Base == 100 * 100

RECURSIVE NatOf(_)
NatOf(n) == IF n = 0 THEN <<>> ELSE <<n % Base>> \o NatOf(n \div Base)

RECURSIVE NStrip(_)
NStrip(a) ==
  IF a = <<>> THEN <<>>
  ELSE IF a[Len(a)] = 0 THEN NStrip(SubSeq(a, 1, Len(a) - 1))
  ELSE a

NLimb(a, i) == IF i <= Len(a) THEN a[i] ELSE 0

NMaxLen(a, b) == IF Len(a) >= Len(b) THEN Len(a) ELSE Len(b)

RECURSIVE NAddFrom(_, _, _, _)
NAddFrom(a, b, i, carry) ==
  IF i > NMaxLen(a, b)
  THEN (IF carry = 0 THEN <<>> ELSE <<carry>>)
  ELSE LET s == NLimb(a, i) + NLimb(b, i) + carry
       IN  <<s % Base>> \o NAddFrom(a, b, i + 1, s \div Base)

NAdd(a, b) == NAddFrom(a, b, 1, 0)

\* -1, 0 or 1 as a < b, a = b, a > b
RECURSIVE NCmpFrom(_, _, _)
NCmpFrom(a, b, i) ==
  IF i = 0 THEN 0
  ELSE IF a[i] < b[i] THEN -1
  ELSE IF a[i] > b[i] THEN 1
  ELSE NCmpFrom(a, b, i - 1)

NCmp(a, b) ==
  IF Len(a) < Len(b) THEN -1
  ELSE IF Len(a) > Len(b) THEN 1
  ELSE NCmpFrom(a, b, Len(a))

\* a - b for a >= b
RECURSIVE NSubFrom(_, _, _, _)
NSubFrom(a, b, i, borrow) ==
  IF i > Len(a) THEN <<>>
  ELSE LET d == a[i] - NLimb(b, i) - borrow
       IN  IF d < 0
           THEN <<d + Base>> \o NSubFrom(a, b, i + 1, 1)
           ELSE <<d>> \o NSubFrom(a, b, i + 1, 0)

NSub(a, b) == NStrip(NSubFrom(a, b, 1, 0))

\* a * k for a single limb k
RECURSIVE NMulLimbFrom(_, _, _, _)
NMulLimbFrom(a, k, i, carry) ==
  IF i > Len(a)
  THEN (IF carry = 0 THEN <<>> ELSE <<carry>>)
  ELSE LET p == a[i] * k + carry
       IN  <<p % Base>> \o NMulLimbFrom(a, k, i + 1, p \div Base)

NMulLimb(a, k) == IF k = 0 THEN <<>> ELSE NMulLimbFrom(a, k, 1, 0)

NShift(a) == IF a = <<>> THEN <<>> ELSE <<0>> \o a

RECURSIVE NMul(_, _)
NMul(a, b) ==
  IF b = <<>> THEN <<>>
  ELSE LET rest == NShift(NMul(a, Tail(b)))
       IN  NAdd(NMulLimb(a, Head(b)), rest)

NReverse(a) == [i \in 1..Len(a) |-> a[Len(a) + 1 - i]]

\* the largest limb q in lo..hi with q * b <= r, for lo * b <= r
RECURSIVE NQuotLimb(_, _, _, _)
NQuotLimb(r, b, lo, hi) ==
  IF lo = hi THEN lo
  ELSE LET mid == (lo + hi + 1) \div 2
       IN  IF NCmp(NMulLimb(b, mid), r) <= 0
           THEN NQuotLimb(r, b, mid, hi)
           ELSE NQuotLimb(r, b, lo, mid - 1)

\* long division of a by b > 0 from limb i of a downwards, r the remainder
\* so far: the limbs of the quotient, most significant first
RECURSIVE NDivFrom(_, _, _, _)
NDivFrom(a, b, i, r) ==
  IF i = 0 THEN <<>>
  ELSE LET cur == NStrip(<<a[i]>> \o r)
           q   == NQuotLimb(cur, b, 0, Base - 1)
       IN  <<q>> \o NDivFrom(a, b, i - 1, NSub(cur, NMulLimb(b, q)))

\* the integer part of a / b
NDiv(a, b) == NStrip(NReverse(NDivFrom(a, b, Len(a), <<>>)))

\* 10^k
RECURSIVE NPow10(_)
NPow10(k) ==
  IF k = 0 THEN <<1>>
  ELSE IF k = 1 THEN <<10>>
  ELSE IF k = 2 THEN <<100>>
  ELSE IF k = 3 THEN <<1000>>
  ELSE <<0>> \o NPow10(k - 4)

(***************************************************************************)
(* Integers [neg, mag] and rationals [num, den] (den > 0, not reduced).   *)
(***************************************************************************)
IMake(neg, mag) == [neg |-> neg /\ mag # <<>>, mag |-> mag]

IntOf(n) == IF n < 0 THEN IMake(TRUE, NatOf(-n)) ELSE IMake(FALSE, NatOf(n))

INeg(a) == IMake(~a.neg, a.mag)

IAdd(a, b) ==
  IF a.neg = b.neg THEN IMake(a.neg, NAdd(a.mag, b.mag))
  ELSE IF NCmp(a.mag, b.mag) >= 0 THEN IMake(a.neg, NSub(a.mag, b.mag))
  ELSE IMake(b.neg, NSub(b.mag, a.mag))

ISub(a, b) == IAdd(a, INeg(b))

IMul(a, b) == IMake(a.neg # b.neg, NMul(a.mag, b.mag))

ISign(a) == IF a.mag = <<>> THEN 0 ELSE IF a.neg THEN -1 ELSE 1

ICmp(a, b) == ISign(ISub(a, b))

RMake(num, den) == [num |-> num, den |-> den]

RInt(n) == RMake(IntOf(n), NatOf(1))

\* a decimal literal such as 46.4: digits 464, one decimal place

RDec(digits, places) == RMake(IntOf(digits), NPow10(places))

RAdd(x, y) ==
  RMake(IAdd(IMul(x.num, IMake(FALSE, y.den)), IMul(y.num, IMake(FALSE, x.den))),
        NMul(x.den, y.den))

RNeg(x) == RMake(INeg(x.num), x.den)

RSub(x, y) == RAdd(x, RNeg(y))

RMul(x, y) == RMake(IMul(x.num, y.num), NMul(x.den, y.den))

\* x / y for y # 0
RDiv(x, y) ==
  RMake(IMake(x.num.neg # y.num.neg, NMul(x.num.mag, y.den)),
        NMul(x.den, y.num.mag))

RSign(x) == ISign(x.num)

RCmp(x, y) == RSign(RSub(x, y))

REq(x, y) == RCmp(x, y) = 0

RLess(x, y) == RCmp(x, y) < 0

RLeq(x, y) == RCmp(x, y) <= 0

RZero == RInt(0)


(***************************************************************************)
(* Strings are sequences of one-character strings.                         *)
(***************************************************************************)
DigitChars == <<"0", "1", "2", "3", "4", "5", "6", "7", "8", "9">>

IsDigit(c) == \E k \in 1..10 : DigitChars[k] = c

\* \w of the regular expression; of the characters number strings hold
\* ("0".."9", "-", ".", ",") only the digits are word characters
IsWordChar(c) == IsDigit(c) \/ c = "_"

RECURSIVE ZeroPad(_, _)
ZeroPad(s, width) == IF Len(s) >= width THEN s ELSE ZeroPad(<<"0">> \o s, width)

\* the decimal digits of n in 0..Base-1, most significant first; <<>> for 0
RECURSIVE LimbChars(_)
LimbChars(n) ==
  IF n = 0 THEN <<>> ELSE LimbChars(n \div 10) \o <<DigitChars[(n % 10) + 1]>>

\* the decimal digits of a natural number, most significant first; <<>> for 0
RECURSIVE NatChars(_)
NatChars(a) ==
  IF a = <<>> THEN <<>>
  ELSE IF Len(a) = 1 THEN LimbChars(a[1])
  ELSE NatChars(Tail(a)) \o ZeroPad(LimbChars(Head(a)), 4)


\* Number.prototype.toFixed(places) for |x| < 10^21: the sign, then the
\* integer n nearest to |x| * 10^places (the larger of two nearest), written
\* with at least places + 1 digits and a point before the last places digits
toFixed(x, places) ==
  LET scaled == NMul(x.num.mag, NPow10(places))
      n      == NDiv(NAdd(NMulLimb(scaled, 2), x.den), NMulLimb(x.den, 2))
      m      == ZeroPad(NatChars(n), places + 1)
      k      == Len(m) - places
      sign   == IF RSign(x) < 0 THEN <<"-">> ELSE <<>>
  IN  IF places = 0 THEN sign \o m
      ELSE sign \o SubSeq(m, 1, k) \o <<".">> \o SubSeq(m, k + 1, Len(m))

(***************************************************************************)
(* formatNumber (script.js 48-50):                                         *)
(*   value.toString().replace(/\B(?=(\d{3})+(?!\d))/g, ',')                *)
(* The pattern matches the empty string at a position p (between s[p] and  *)
(* s[p+1]) that is not a word boundary and is followed by one or more      *)
(* groups of three digits and then no digit.                               *)
(***************************************************************************)
NotWordBoundary(s, p) ==
  LET before == p >= 1 /\ IsWordChar(s[p])
      after  == p < Len(s) /\ IsWordChar(s[p + 1])
  IN  before = after

DigitGroupsAhead(s, p) ==
  \E k \in 1..(Len(s) \div 3) :
     /\ p + 3 * k <= Len(s)
     /\ \A i \in (p + 1)..(p + 3 * k) : IsDigit(s[i])
     /\ (p + 3 * k = Len(s) \/ ~IsDigit(s[p + 3 * k + 1]))

SeparatorAt(s, p) == NotWordBoundary(s, p) /\ DigitGroupsAhead(s, p)

\* the characters from position p + 1 on, with "," put at every match
RECURSIVE ReplaceFrom(_, _)
ReplaceFrom(s, p) ==
  LET sep == IF SeparatorAt(s, p) THEN <<",">> ELSE <<>>
  IN  IF p = Len(s) THEN sep
      ELSE sep \o <<s[p + 1]>> \o ReplaceFrom(s, p + 1)

\* formatNumber with the \B of the pattern left out
RECURSIVE ReplaceFromNoBoundary(_, _)
ReplaceFromNoBoundary(s, p) ==
  LET sep == IF DigitGroupsAhead(s, p) THEN <<",">> ELSE <<>>
  IN  IF p = Len(s) THEN sep
      ELSE sep \o <<s[p + 1]>> \o ReplaceFromNoBoundary(s, p + 1)

formatNumberNoBoundary(value) == ReplaceFromNoBoundary(value, 0)

formatNumber(value) == ReplaceFrom(value, 0)

(***************************************************************************)
(* Data constants and derived constants (script.js 26-34, 45).             *)
(***************************************************************************)
START_VOLUME_KM3 == RDec(464, 1)

YEARLY_MELT_KM3 == RDec(12, 1)

TRUCK_CAPACITY_L == RInt(10000)

SECONDS_PER_YEAR == RInt(365 * 24 * 60 * 60)

MELT_RATE_M3_PER_SEC ==
  RDiv(RMul(YEARLY_MELT_KM3, RInt(1000000000)), SECONDS_PER_YEAR)

MELT_RATE_L_PER_SEC == RMul(MELT_RATE_M3_PER_SEC, RInt(1000))

TRUCK_RATE_PER_SEC == RDiv(MELT_RATE_L_PER_SEC, TRUCK_CAPACITY_L)

\* Date.UTC(2024, 0, 1, 0, 0, 0): 19723 days after 1 Jan 1970, in ms
startOfYear == IMul(IntOf(19723 * 86400), IntOf(1000))

(***************************************************************************)
(* updateCounters (script.js 53-68) for a clock reading (ms since      *)
(* 1970): the local values and the three strings it writes.                *)
(***************************************************************************)
secondsSinceStartAt(clock) ==
  RDiv(RMake(ISub(clock, startOfYear), NatOf(1)), RInt(1000))

\* meltedM3 with a lower bound of 0, as remainingKm3 has
meltedM3AtClamped(clock) ==
  LET meltedM3 == RMul(secondsSinceStartAt(clock), MELT_RATE_M3_PER_SEC)
  IN  IF RLess(meltedM3, RZero) THEN RZero ELSE meltedM3

\* meltedM3 with the starting volume as its upper bound
meltedM3AtCapped(clock) ==
  LET meltedM3 == RMul(secondsSinceStartAt(clock), MELT_RATE_M3_PER_SEC)
      total    == RMul(START_VOLUME_KM3, RInt(1000000000))
  IN  IF RLess(total, meltedM3) THEN total ELSE meltedM3

meltedM3At(clock) == RMul(secondsSinceStartAt(clock), MELT_RATE_M3_PER_SEC)

meltedLAt(clock) == RMul(meltedM3At(clock), RInt(1000))

trucksAt(clock) == RMul(secondsSinceStartAt(clock), TRUCK_RATE_PER_SEC)

\* remainingKm3 with line 62 left out
remainingKm3AtUnclamped(clock) ==
  RSub(START_VOLUME_KM3,
       RMul(YEARLY_MELT_KM3, RDiv(secondsSinceStartAt(clock), SECONDS_PER_YEAR)))

remainingKm3At(clock) ==
  LET remainingKm3 ==
        RSub(START_VOLUME_KM3,
             RMul(YEARLY_MELT_KM3, RDiv(secondsSinceStartAt(clock), SECONDS_PER_YEAR)))
  IN  IF RLess(remainingKm3, RZero) THEN RZero ELSE remainingKm3


\* one call of updateCounters with a clock reading: its local values, the
\* two strings line 66 and 67 hand to formatNumber and the three strings
\* of lines 65-67
updateCountersAt(clock) ==
  [ now               |-> clock,
    secondsSinceStart |-> secondsSinceStartAt(clock),
    meltedM3          |-> meltedM3At(clock),
    meltedL           |-> meltedLAt(clock),
    trucks            |-> trucksAt(clock),
    remainingKm3      |-> remainingKm3At(clock),
    meltedFixed       |-> toFixed(meltedM3At(clock), 0),
    trucksFixed       |-> toFixed(trucksAt(clock), 0),
    volumeText        |-> toFixed(remainingKm3At(clock), 2),
    meltedText        |-> formatNumber(toFixed(meltedM3At(clock), 0)),
    trucksText        |-> formatNumber(toFixed(trucksAt(clock), 0)) ]

(***************************************************************************)
(* The clock readings of the model: within MaxStep seconds of an anchor,   *)
(* at 0 ms and at 990 ms of the second.  The anchors are the start of the  *)
(* year, the times the melted volume gains a digit (1,000 m3 after 26.28   *)
(* s, 10,000 m3 after 262.8 s, ...), one year, and the instant the         *)
(* remaining volume reaches zero.                                          *)
(***************************************************************************)
MaxStep == 1

\* START_VOLUME_KM3 / YEARLY_MELT_KM3 years, in seconds: 464/12 * 31536000
ZeroVolumeSeconds == ((365 * 24 * 60 * 60) \div 12) * 464

Anchors ==
  {0, 26, 263, 2628, 26280, 262800, 2628000, 26280000, 365 * 24 * 60 * 60,
   262800000, ZeroVolumeSeconds}

Offsets ==
  {<<a + k, ms>> : a \in Anchors, k \in (0 - MaxStep)..MaxStep, ms \in {0, 990}}

\* new Date().getTime() at off[1] seconds and off[2] ms after the start of the year
ClockAt(off) ==
  IAdd(startOfYear, IAdd(IMul(IntOf(off[1]), IntOf(1000)), IntOf(off[2])))

\* the calls of updateCounters the clock allows, computed once
CounterRuns == {updateCountersAt(ClockAt(off)) : off \in Offsets}


(***************************************************************************)
(* The page.                                                               *)
(***************************************************************************)
VARIABLES
  present,       \* element id -> whether document.getElementById finds it
  pc,            \* position of the script body: the line it runs next
  now,           \* the clock reading of the latest updateCounters call
  locals,        \* <<>> or <<the local values of the latest call>>
  volumeText,    \* volumeEl.textContent as written by the script (<<>>: not yet)
  meltedText,    \* meltedEl.textContent
  trucksText,    \* trucksEl.textContent
  intervals,     \* the timers setInterval has registered
  listeners,     \* the listeners added to audioToggleBtn
  muted,         \* videoEl.muted
  label,         \* audioToggleBtn.textContent
  classList,     \* audioToggleBtn.classList
  clickLog,      \* the audio state before each of the latest two clicks
  windowInitMap, \* whether window.initMap is defined
  mapsCallback,  \* the Maps library: "pending" or "invoked"
  mapPc,         \* position inside window.initMap
  maps,          \* the google.maps.Map objects constructed
  markers        \* the google.maps.Marker objects constructed

vars ==
  <<present, pc, now, locals, volumeText, meltedText, trucksText, intervals,
    listeners, muted, label, classList, clickLog, windowInitMap, mapsCallback,
    mapPc, maps, markers>>

counterVars == <<now, locals, volumeText, meltedText, trucksText>>

audioVars == <<muted, label, classList>>

mapVars == <<mapsCallback, mapPc, maps, markers>>

ElementIds ==
  {"volume-remaining", "melted-since", "truck-count", "audio-toggle",
   "background-video", "map"}

\* lines 37-41: the cached lookups; null for an id the document lacks
volumeEl == present["volume-remaining"]

meltedEl == present["melted-since"]

trucksEl == present["truck-count"]

audioToggleBtn == present["audio-toggle"]

videoEl == present["background-video"]

mapDiv == present["map"]

\* the audio state a click reads and writes
AudioState == [muted |-> muted, label |-> label, classList |-> classList]

\* the page as the markup gives it to the script: the video muted, the
\* control showing the prompt to play the sound and not marked active
MarkupAudio ==
  /\ muted = TRUE
  /\ label = "Ton abspielen"
  /\ classList = {}

\* any markup of the video and the control
AnyAudio ==
  /\ muted \in BOOLEAN
  /\ label \in {"Ton abspielen", "Ton ausschalten", "Sound"}
  /\ classList \in SUBSET {"active"}

\* the state the script body starts in (line 24), but for the markup
ScriptStart ==
  /\ pc = "updateCounters"
  /\ now = startOfYear
  /\ locals = <<>>
  /\ volumeText = <<>>
  /\ meltedText = <<>>
  /\ trucksText = <<>>
  /\ intervals = <<>>
  /\ listeners = <<>>
  /\ clickLog = <<>>
  /\ windowInitMap = FALSE
  /\ mapsCallback = "pending"
  /\ mapPc = "idle"
  /\ maps = <<>>
  /\ markers = <<>>

Init ==
  /\ present = [id \in ElementIds |-> TRUE]
  /\ MarkupAudio
  /\ ScriptStart

\* a document that may lack any of the elements
InitMissing ==
  /\ present \in [ElementIds -> BOOLEAN]
  /\ MarkupAudio
  /\ ScriptStart

\* any markup of the video and the control
InitAnyAudio ==
  /\ present = [id \in ElementIds |-> TRUE]
  /\ AnyAudio
  /\ ScriptStart

(***************************************************************************)
(* updateCounters (lines 53-68) with the values r of one run: the writes   *)
(* of lines 65-67 happen in order, and the first one to a null element     *)
(* throws a TypeError that ends the call.                                  *)
(***************************************************************************)
\* writes to an element that is not there dropped silently
UpdateCountersNeverThrows == FALSE

UpdateCountersThrows == ~(volumeEl /\ meltedEl /\ trucksEl)

updateCounters(r) ==
  /\ now' = r.now
  /\ locals' = << [secondsSinceStart |-> r.secondsSinceStart,
                   meltedM3 |-> r.meltedM3, meltedL |-> r.meltedL,
                   trucks |-> r.trucks, remainingKm3 |-> r.remainingKm3,
                   meltedFixed |-> r.meltedFixed,
                   trucksFixed |-> r.trucksFixed] >>
  /\ volumeText' = IF volumeEl THEN r.volumeText ELSE volumeText
  /\ meltedText' = IF volumeEl /\ meltedEl THEN r.meltedText ELSE meltedText
  /\ trucksText' =
       IF volumeEl /\ meltedEl /\ trucksEl THEN r.trucksText ELSE trucksText

\* line 71: the call of updateCounters in the script body
ScriptUpdateCounters ==
  /\ pc = "updateCounters"
  /\ \E r \in CounterRuns : updateCounters(r)
  /\ pc' = IF UpdateCountersThrows THEN "threw" ELSE "setInterval"
  /\ UNCHANGED <<present, intervals, listeners, audioVars, clickLog,
                 windowInitMap, mapVars>>

\* line 72: setInterval(updateCounters, 1000)
ScriptSetInterval ==
  /\ pc = "setInterval"
  /\ intervals' = Append(intervals, [callback |-> "updateCounters", delay |-> 1000])
  /\ pc' = "addEventListener"
  /\ UNCHANGED <<present, counterVars, listeners, audioVars, clickLog,
                 windowInitMap, mapVars>>

\* line 75: audioToggleBtn.addEventListener('click', ...); throws on null
ScriptAddEventListener ==
  /\ pc = "addEventListener"
  /\ IF audioToggleBtn
       THEN listeners' = Append(listeners, "click") /\ pc' = "initMap"
       ELSE listeners' = listeners /\ pc' = "threw"
  /\ UNCHANGED <<present, counterVars, intervals, audioVars, clickLog,
                 windowInitMap, mapVars>>

\* line 89: window.initMap = ...
ScriptAssignInitMap ==
  /\ pc = "initMap"
  /\ windowInitMap' = TRUE
  /\ pc' = "done"
  /\ UNCHANGED <<present, counterVars, intervals, listeners, audioVars,
                 clickLog, mapVars>>

\* the event loop runs a timer, a listener or a callback only when the
\* script body has ended and no other one is running
EventLoopIdle == pc \in {"done", "threw"} /\ mapPc = "idle"

\* a timer that setTimeout registered: it fires once
TickOnce ==
  /\ EventLoopIdle
  /\ intervals # <<>>
  /\ \E r \in CounterRuns : updateCounters(r)
  /\ intervals' = <<>>
  /\ UNCHANGED <<present, pc, listeners, audioVars, clickLog,
                 windowInitMap, mapVars>>

\* a tick that also writes the label of the control back to its first text
TickWritingLabel ==
  /\ EventLoopIdle
  /\ intervals # <<>>
  /\ \E r \in CounterRuns : updateCounters(r)
  /\ label' = "Ton abspielen"
  /\ UNCHANGED <<present, pc, intervals, listeners, muted, classList, clickLog,
                 windowInitMap, mapVars>>

\* a firing of the interval timer of line 72
Tick ==
  /\ EventLoopIdle
  /\ intervals # <<>>
  /\ \E r \in CounterRuns : updateCounters(r)
  /\ UNCHANGED <<present, pc, intervals, listeners, audioVars, clickLog,
                 windowInitMap, mapVars>>

\* ClickResult with line 83 left out: muting does not unmark the control
ClickResultKeepsActive(a) ==
  IF a.muted
    THEN [muted |-> FALSE, label |-> "Ton ausschalten",
          classList |-> a.classList \cup {"active"}]
    ELSE [muted |-> TRUE, label |-> "Ton abspielen", classList |-> a.classList]

\* ClickResult with the test of line 76 left out: every click mutes
ClickResultAlwaysMutes(a) ==
  [muted |-> TRUE, label |-> "Ton abspielen",
   classList |-> a.classList \ {"active"}]

\* lines 76-84: the state the click listener leaves, from the state it reads
ClickResult(a) ==
  IF a.muted
    THEN [muted |-> FALSE, label |-> "Ton ausschalten",
          classList |-> a.classList \cup {"active"}]
    ELSE [muted |-> TRUE, label |-> "Ton abspielen",
          classList |-> a.classList \ {"active"}]

\* a click on the control (lines 75-85); reading videoEl.muted of a null
\* videoEl throws and the listener changes nothing
Click ==
  /\ EventLoopIdle
  /\ listeners # <<>>
  /\ IF videoEl
       THEN /\ muted' = ClickResult(AudioState).muted
            /\ label' = ClickResult(AudioState).label
            /\ classList' = ClickResult(AudioState).classList
       ELSE UNCHANGED audioVars
  /\ clickLog' = IF clickLog = <<>> THEN <<AudioState>>
                  ELSE <<AudioState, clickLog[1]>>
  /\ UNCHANGED <<present, pc, counterVars, intervals, listeners,
                 windowInitMap, mapVars>>

(***************************************************************************)
(* window.initMap (lines 89-137).                                          *)
(***************************************************************************)
matterhorn == [lat |-> 4597631, lng |-> 765827]  \* in 1/100000 degree

darkStyle ==
  << [elementType |-> "geometry", stylers |-> <<[color |-> "#1e1e1e"]>>],
     [elementType |-> "labels.text.fill", stylers |-> <<[color |-> "#757575"]>>],
     [elementType |-> "labels.text.stroke", stylers |-> <<[color |-> "#1e1e1e"]>>],
     [featureType |-> "administrative.locality",
      elementType |-> "labels.text.fill", stylers |-> <<[color |-> "#d6d6d6"]>>],
     [featureType |-> "road", elementType |-> "geometry",
      stylers |-> <<[color |-> "#383838"]>>],
     [featureType |-> "road", elementType |-> "geometry.stroke",
      stylers |-> <<[color |-> "#1e1e1e"]>>],
     [featureType |-> "water", elementType |-> "geometry",
      stylers |-> <<[color |-> "#0a3148"]>>],
     [featureType |-> "poi.park", elementType |-> "geometry",
      stylers |-> <<[color |-> "#0c3b47"]>> ] >>

\* the options of line 91-98; a new map has no styles of its own
NewMap ==
  [ center |-> matterhorn, zoom |-> 13, mapTypeId |-> "hybrid", tilt |-> 45,
    heading |-> 0, disableDefaultUI |-> TRUE, styles |-> <<>> ]

\* setOptions given the rules under a key it does not know ("style")
SetStylesIgnored(map, styles) == map

\* map.setOptions({styles: darkStyle}): the option given replaces the map's
SetStyles(map, styles) == [map EXCEPT !.styles = styles]

NewMarker(map) == [position |-> matterhorn, map |-> map, title |-> "Matterhorn"]

\* the Maps library calls the global entry point once, when it has loaded
LibraryCallsBack == windowInitMap /\ mapsCallback = "pending"

\* lines 90-98: new google.maps.Map(document.getElementById('map'), ...);
\* what the library does with a null element is its own: it throws or not
InitMapConstruct ==
  /\ EventLoopIdle
  /\ LibraryCallsBack
  /\ mapsCallback' = "invoked"
  /\ \E constructed \in (IF mapDiv THEN {TRUE} ELSE BOOLEAN) :
       IF constructed
         THEN maps' = Append(maps, NewMap) /\ mapPc' = "setOptions"
         ELSE maps' = maps /\ mapPc' = "idle"
  /\ UNCHANGED <<present, pc, counterVars, intervals, listeners, audioVars,
                 clickLog, windowInitMap, markers>>

\* line 130: map.setOptions({ styles: darkStyle })
InitMapSetOptions ==
  /\ mapPc = "setOptions"
  /\ maps' = [maps EXCEPT ![Len(maps)] = SetStyles(maps[Len(maps)], darkStyle)]
  /\ mapPc' = "marker"
  /\ UNCHANGED <<present, pc, counterVars, intervals, listeners, audioVars,
                 clickLog, windowInitMap, mapsCallback, markers>>

\* lines 132-136: new google.maps.Marker({...})
InitMapMarker ==
  /\ mapPc = "marker"
  /\ markers' = Append(markers, NewMarker(Len(maps)))
  /\ mapPc' = "idle"
  /\ UNCHANGED <<present, pc, counterVars, intervals, listeners, audioVars,
                 clickLog, windowInitMap, mapsCallback, maps>>

Next ==
  \/ ScriptUpdateCounters
  \/ ScriptSetInterval
  \/ ScriptAddEventListener
  \/ ScriptAssignInitMap
  \/ Tick
  \/ Click
  \/ InitMapConstruct
  \/ InitMapSetOptions
  \/ InitMapMarker

Spec == Init /\ [][Next]_vars

\* the script body and a running initMap run to their ends, and the timer
\* fires again and again
SpecFair ==
  /\ Spec
  /\ WF_vars(ScriptUpdateCounters \/ ScriptSetInterval
               \/ ScriptAddEventListener \/ ScriptAssignInitMap)
  /\ WF_vars(InitMapSetOptions \/ InitMapMarker)
  /\ WF_vars(Tick)

SpecMissing == InitMissing /\ [][Next]_vars

SpecAnyAudio == InitAnyAudio /\ [][Next]_vars


(***************************************************************************)
(* The audio toggle.                                                       *)
(***************************************************************************)
\* label and mark agree with the mute flag in the audio state a
ConsistentAudio(a) ==
  /\ (~a.muted) <=> ("active" \in a.classList)
  /\ ("active" \in a.classList) <=> (a.label = "Ton ausschalten")
  /\ a.muted <=> ("active" \notin a.classList /\ a.label = "Ton abspielen")

\* C1: in every reachable state, from load onwards and after any clicks and
\* ticks, the video is unmuted iff the control is marked active iff its label
\* is 'Ton ausschalten', and it is muted iff the control is not marked active
\* and its label is 'Ton abspielen'.
C1_LabelAndMarkFollowMute == ConsistentAudio(AudioState)

\* the sound on after two clicks and a third, with the timer running
C1_Witness ==
  /\ Len(clickLog) = 2
  /\ ~muted
  /\ clickLog[1].muted
  /\ intervals # <<>>
  /\ trucksText # <<>>

\* C2 as stated: whatever the mute flag, the label and the mark were, two
\* consecutive clicks return all three to the values before the first.
C2_TwoClicksRestoreAll == Len(clickLog) = 2 => AudioState = clickLog[2]

\* C2 as amended: two consecutive clicks return the mute flag to its value
\* before the first, and return the label and the mark exactly when these
\* agreed with the mute flag before the first click.
C2_TwoClicksRestore ==
  Len(clickLog) = 2 =>
    /\ muted = clickLog[2].muted
    /\ (AudioState = clickLog[2]) <=> ConsistentAudio(clickLog[2])

\* two clicks from an unmuted video with a label that says something else
C2_Witness ==
  /\ Len(clickLog) = 2
  /\ clickLog[2] = [muted |-> FALSE, label |-> "Sound", classList |-> {}]
  /\ clickLog[1].muted
  /\ ~muted

(***************************************************************************)
(* A document that lacks elements.                                         *)
(***************************************************************************)
ScriptEnded == pc \in {"done", "threw"}

NothingInitialized ==
  /\ volumeText = <<>> /\ meltedText = <<>> /\ trucksText = <<>>
  /\ intervals = <<>>
  /\ listeners = <<>>
  /\ ~windowInitMap

\* C3 as stated: if any of the six elements is missing at load time the
\* script fails fast and leaves nothing initialized: no region written, no
\* timer, no click listener, no map entry point.
C3_FailFastNothingInitialized ==
  (ScriptEnded /\ \E id \in ElementIds : ~present[id]) =>
    pc = "threw" /\ NothingInitialized

\* C3 as amended: the script stops with a TypeError at the first use of a
\* missing display region or control and keeps what it did before: nothing
\* if the volume region is missing; the regions before the missing one
\* written, and no timer, listener or entry point, if the melted or the truck
\* region is missing; all three regions written and the timer running, but no
\* listener and no entry point, if the control is missing.  A missing video
\* or map region does not stop it: the script initializes everything.
C3_StopsAtFirstMissingUse ==
  ScriptEnded =>
    /\ ~volumeEl => pc = "threw" /\ NothingInitialized
    /\ (volumeEl /\ ~meltedEl) =>
         /\ pc = "threw"
         /\ volumeText # <<>> /\ meltedText = <<>> /\ trucksText = <<>>
         /\ intervals = <<>> /\ listeners = <<>> /\ ~windowInitMap
    /\ (volumeEl /\ meltedEl /\ ~trucksEl) =>
         /\ pc = "threw"
         /\ volumeText # <<>> /\ meltedText # <<>> /\ trucksText = <<>>
         /\ intervals = <<>> /\ listeners = <<>> /\ ~windowInitMap
    /\ (volumeEl /\ meltedEl /\ trucksEl /\ ~audioToggleBtn) =>
         /\ pc = "threw"
         /\ volumeText # <<>> /\ meltedText # <<>> /\ trucksText # <<>>
         /\ Len(intervals) = 1 /\ listeners = <<>> /\ ~windowInitMap
    /\ (volumeEl /\ meltedEl /\ trucksEl /\ audioToggleBtn) =>
         /\ pc = "done"
         /\ volumeText # <<>> /\ meltedText # <<>> /\ trucksText # <<>>
         /\ Len(intervals) = 1 /\ Len(listeners) = 1 /\ windowInitMap

\* the control missing: the script threw with the counters running
C3_Witness ==
  /\ pc = "threw"
  /\ ~audioToggleBtn
  /\ Len(intervals) = 1
  /\ trucksText # <<>>
  /\ locals # <<>>


(***************************************************************************)
(* The counters.  t is the elapsed time of the latest call of              *)
(* updateCounters, in seconds.                                             *)
(***************************************************************************)
Called == locals # <<>>

Elapsed == locals[1].secondsSinceStart

\* secondsPerYear * startVolume / yearlyLoss
ZeroVolumeTime ==
  RDiv(RMul(SECONDS_PER_YEAR, START_VOLUME_KM3), YEARLY_MELT_KM3)

CubicMetresPerKm3 == RInt(1000000000)

\* max(0, startVolume - yearlyLoss * t / secondsPerYear)
ExpectedRemaining(t) ==
  LET raw == RSub(START_VOLUME_KM3,
                  RDiv(RMul(YEARLY_MELT_KM3, t), SECONDS_PER_YEAR))
  IN  IF RSign(raw) < 0 THEN RZero ELSE raw

\* the three strings on the page are those of one call, at the clock reading now
TextsOfOneCall ==
  \E r \in CounterRuns :
     /\ r.now = now
     /\ volumeText = r.volumeText
     /\ meltedText = r.meltedText
     /\ trucksText = r.trucksText

C4_Values ==
  Called =>
    /\ RSign(locals[1].remainingKm3) >= 0
    /\ REq(locals[1].remainingKm3, ExpectedRemaining(Elapsed))
    /\ REq(Elapsed, ZeroVolumeTime) => RSign(locals[1].remainingKm3) = 0
    /\ RLess(ZeroVolumeTime, Elapsed) => RSign(locals[1].remainingKm3) = 0
    /\ volumeText # <<>> => volumeText[1] # "-"
    /\ (volumeText # <<>> /\ RLeq(ZeroVolumeTime, Elapsed)) =>
         volumeText = <<"0", ".", "0", "0">>

C4_Steps ==
  (Called /\ Called' /\ RLeq(Elapsed, Elapsed')) =>
    RLeq(locals'[1].remainingKm3, locals[1].remainingKm3)

\* C4: the remaining volume updateCounters writes is never negative and is
\* max(0, startVolume - yearlyLoss * t / secondsPerYear) for every elapsed
\* time t; from one call to the next with a clock that has not gone back it
\* does not increase; it is exactly 0 at t = secondsPerYear * startVolume /
\* yearlyLoss and stays 0 on every later call.
C4_RemainingVolume == []C4_Values /\ [][C4_Steps]_vars

\* one second after the remaining volume reached zero
C4_Witness ==
  /\ Called
  /\ RLess(ZeroVolumeTime, Elapsed)
  /\ RSign(locals[1].remainingKm3) = 0
  /\ volumeText = <<"0", ".", "0", "0">>
  /\ pc = "done"

C5_Values ==
  Called =>
    LET t      == Elapsed
        melted == locals[1].meltedM3
        trucks == locals[1].trucks
    IN  \* melted = t * yearlyLoss * 1e9 / secondsPerYear
        /\ REq(RMul(melted, SECONDS_PER_YEAR),
               RMul(t, RMul(YEARLY_MELT_KM3, CubicMetresPerKm3)))
        \* trucks = t * (yearlyLoss * 1e9 / secondsPerYear) * 1000 / capacity
        /\ REq(RMul(RMul(trucks, TRUCK_CAPACITY_L), SECONDS_PER_YEAR),
               RMul(t, RMul(RMul(YEARLY_MELT_KM3, CubicMetresPerKm3), RInt(1000))))
        /\ RSign(t) = 0 =>
             /\ RSign(melted) = 0 /\ RSign(trucks) = 0
             /\ meltedText \in {<<>>, <<"0">>}
             /\ trucksText \in {<<>>, <<"0">>}
        /\ RSign(t) > 0 => RSign(melted) >= 0 /\ RSign(trucks) >= 0
        /\ RSign(t) < 0 =>
             /\ RSign(melted) < 0 /\ RSign(trucks) < 0
             /\ meltedText # <<>> => meltedText[1] = "-"
             /\ trucksText # <<>> => trucksText[1] = "-"
             /\ RSign(locals[1].remainingKm3) >= 0

C5_Steps ==
  (Called /\ Called' /\ RSign(Elapsed) >= 0 /\ RLeq(Elapsed, Elapsed')) =>
    /\ RLeq(locals[1].meltedM3, locals'[1].meltedM3)
    /\ RLeq(locals[1].trucks, locals'[1].trucks)

\* C5: on every call the melted volume and the truck-equivalents are t times
\* their rates, both 0 (shown as "0") at t = 0; for t >= 0 both are
\* non-negative and, from one call to the next with a clock that has not gone
\* back, do not decrease; for t < 0 both are negative, not clamped, while the
\* remaining volume is still not below 0.
C5_MeltedAndTrucksLinear == []C5_Values /\ [][C5_Steps]_vars

\* a tick one second before the start of the year
C5_Witness ==
  /\ Called
  /\ RSign(Elapsed) < 0
  /\ meltedText = <<"-", "3", "8">>
  /\ trucksText = <<"-", "4">>
  /\ volumeText = <<"4", "6", ".", "4", "0">>

C10_Values ==
  Called =>
    LET t         == Elapsed
        melted    == locals[1].meltedM3
        trucks    == locals[1].trucks
        remaining == locals[1].remainingKm3
        total     == RMul(START_VOLUME_KM3, CubicMetresPerKm3)
    IN  /\ (trucksText # <<>>) => TextsOfOneCall
        /\ (RSign(t) >= 0 /\ RLeq(t, ZeroVolumeTime)) =>
             /\ REq(RAdd(RMul(remaining, CubicMetresPerKm3), melted), total)
             /\ REq(RMul(trucks, TRUCK_CAPACITY_L), RMul(melted, RInt(1000)))
        /\ RLess(ZeroVolumeTime, t) =>
             /\ RSign(remaining) = 0
             /\ RLess(total, melted)

C10_Steps ==
  (Called /\ Called' /\ RLess(ZeroVolumeTime, Elapsed) /\ RLess(Elapsed, Elapsed')) =>
    RLess(locals[1].meltedM3, locals'[1].meltedM3)

AllRegionsWritten ==
  volumeText # <<>> /\ meltedText # <<>> /\ trucksText # <<>>

C6_Running ==
  \* the timer is registered once, for updateCounters every 1000 ms, and
  \* only after the first call has written the three regions
  /\ Len(intervals) <= 1
  /\ intervals # <<>> =>
       /\ intervals[1] = [callback |-> "updateCounters", delay |-> 1000]
       /\ AllRegionsWritten
  /\ pc \in {"addEventListener", "initMap", "done"} => Len(intervals) = 1
  /\ pc \in {"updateCounters", "setInterval"} => intervals = <<>>
  \* no tick before the script body has ended, and always one after it
  /\ ENABLED Tick => (pc = "done" /\ AllRegionsWritten)
  /\ (pc = "done" /\ mapPc = "idle") => ENABLED Tick

C6_Steps ==
  \* registered by line 72 only, and never cancelled
  /\ (intervals = <<>> /\ intervals' # <<>>) => (pc = "setInterval" /\ intervals' # <<>>)
  /\ intervals # <<>> => intervals' = intervals
  \* a call writes all three regions, from one clock reading
  /\ counterVars' # counterVars => (AllRegionsWritten' /\ TextsOfOneCall')

\* C6: the counter updater starts once, at startup: one update writes the
\* three regions before any tick can fire, then the 1-second timer is
\* registered once; after that there is no final state, the timer is never
\* cancelled, and with a fair timer every tick is followed by another tick
\* that rewrites the three regions.
C6_UpdaterLife ==
  /\ []C6_Running
  /\ [][C6_Steps]_vars
  /\ []<><<Tick /\ AllRegionsWritten' /\ TextsOfOneCall'>>_vars

\* the timer running, after a tick one year into the melt
C6_Witness ==
  /\ pc = "done"
  /\ Len(intervals) = 1
  /\ volumeText = <<"4", "5", ".", "2", "0">>
  /\ meltedText = <<"1", ",", "2", "0", "0", ",", "0", "0", "0", ",", "0", "0", "0">>
  /\ trucksText = <<"1", "2", "0", ",", "0", "0", "0", ",", "0", "0", "0">>

(***************************************************************************)
(* formatNumber.                                                           *)
(***************************************************************************)
\* digits with "," before every group of three counted from the right
RECURSIVE GroupFromRight(_)
GroupFromRight(d) ==
  IF Len(d) <= 3 THEN d
  ELSE GroupFromRight(SubSeq(d, 1, Len(d) - 3)) \o <<",">>
         \o SubSeq(d, Len(d) - 2, Len(d))

\* a whole number: an optional "-", then one digit or more
WholeNumberString(s) ==
  /\ Len(s) >= 1
  /\ \A i \in 2..Len(s) : IsDigit(s[i])
  /\ IsDigit(s[1]) \/ (s[1] = "-" /\ Len(s) >= 2)

Grouped(s) ==
  IF s[1] = "-" THEN <<"-">> \o GroupFromRight(Tail(s)) ELSE GroupFromRight(s)

RemoveSeparators(s) == SelectSeq(s, LAMBDA c : c # ",")

\* out is the whole number in with its digits grouped
FormatsAs(in, out) ==
  /\ WholeNumberString(in)
  /\ out = Grouped(in)
  /\ RemoveSeparators(out) = in
  /\ out[1] # ","
  /\ out[1] = "-" => out[2] # ","
  /\ \A i \in 1..Len(out) : out[i] # "."
  /\ \A i \in 1..Len(out) :
       out[i] = "," <=>
         LET right == Cardinality({j \in (i + 1)..Len(out) : IsDigit(out[j])})
         IN  /\ right > 0 /\ right % 3 = 0
             /\ i > 1 /\ IsDigit(out[i - 1])
             /\ Cardinality({j \in (i + 1)..Len(out) : out[j] = ","}) = (right \div 3) - 1

\* C7: formatNumber, given the digit string of a rounded whole number (with
\* a leading minus sign or not), puts "," exactly between every group of 3
\* digits counted from the right, none in front, none after the minus sign,
\* and no decimal part; without the separators the result is the input
\* (999 -> "999", 1000 -> "1,000", 1234567 -> "1,234,567").
C7_FormatNumberGroups ==
  /\ Called =>
       /\ meltedText # <<>> => FormatsAs(locals[1].meltedFixed, meltedText)
       /\ trucksText # <<>> => FormatsAs(locals[1].trucksFixed, trucksText)
  /\ formatNumber(<<"9", "9", "9">>) = <<"9", "9", "9">>
  /\ formatNumber(<<"1", "0", "0", "0">>) = <<"1", ",", "0", "0", "0">>
  /\ formatNumber(<<"1", "2", "3", "4", "5", "6", "7">>)
       = <<"1", ",", "2", "3", "4", ",", "5", "6", "7">>

\* six digits and nine digits on the page, and a negative number
C7_Witness ==
  /\ Called
  /\ locals[1].meltedFixed = <<"9", "9", "9", "9", "9", "9", "9", "6", "2">>
  /\ meltedText = <<"9", "9", "9", ",", "9", "9", "9", ",", "9", "6", "2">>
  /\ trucksText = <<"9", "9", ",", "9", "9", "9", ",", "9", "9", "6">>

(***************************************************************************)
(* The three components are independent.                                   *)
(***************************************************************************)
C8_Steps ==
  \* a step changes the state of one component at most
  /\ counterVars' # counterVars =>
       UNCHANGED <<audioVars, listeners, intervals, mapVars>>
  /\ audioVars' # audioVars => UNCHANGED <<counterVars, intervals, mapVars>>
  /\ mapVars' # mapVars =>
       UNCHANGED <<counterVars, intervals, audioVars, listeners>>
  \* a tick leaves the video and the control alone
  /\ (EventLoopIdle /\ counterVars' # counterVars) =>
       (muted' = muted /\ label' = label /\ classList' = classList)
  \* what a click does depends on the audio state only
  /\ clickLog' # clickLog =>
       (AudioState' = ClickResult(AudioState) /\ UNCHANGED <<counterVars, intervals>>)
  \* what a tick writes depends on the clock only
  /\ (counterVars' # counterVars /\ trucksText' # <<>>) => TextsOfOneCall'

C8_Enabled ==
  \* ticks and clicks are there whether the map callback has run or not
  (pc = "done" /\ mapPc = "idle") => (ENABLED Tick /\ ENABLED Click)

\* C8: the components share no state: a tick changes only the three
\* regions and leaves the mute flag, the label and the mark as they are; a
\* click changes only these three and leaves the regions and the timer as
\* they are; the map callback changes neither; ticks and clicks behave the
\* same whether the map callback has fired or not.
C8_Independent == []C8_Enabled /\ [][C8_Steps]_vars

\* two clicks and a tick, the map callback never called
C8_Witness ==
  /\ mapsCallback = "pending"
  /\ pc = "done"
  /\ Len(clickLog) = 2
  /\ ~muted
  /\ volumeText = <<"4", "5", ".", "2", "0">>

(***************************************************************************)
(* The map.                                                                *)
(***************************************************************************)
C9_OneMapOneMarker ==
  /\ Len(maps) <= 1 /\ Len(markers) <= 1
  /\ mapsCallback = "pending" => (maps = <<>> /\ markers = <<>>)
  \* the marker comes after the map and its styles
  /\ markers # <<>> =>
       /\ maps # <<>>
       /\ Len(maps[markers[1].map].styles) = 8
  /\ (mapsCallback = "invoked" /\ mapPc = "idle") =>
       /\ Len(maps) = 1 /\ Len(markers) = 1
       /\ maps[1].center = [lat |-> 4597631, lng |-> 765827]
       /\ maps[1].zoom = 13
       /\ maps[1].mapTypeId = "hybrid"
       /\ maps[1].tilt = 45
       /\ maps[1].heading = 0
       /\ maps[1].disableDefaultUI
       /\ maps[1].styles = darkStyle
       /\ Len(maps[1].styles) = 8
       /\ maps[1].styles[7] =
            [featureType |-> "water", elementType |-> "geometry",
             stylers |-> <<[color |-> "#0a3148"]>>]
       /\ markers[1].map = 1
       /\ markers[1].position = maps[1].center
       /\ markers[1].title = "Matterhorn"

C9_Steps ==
  \* a marker is made only for a map that is there and has the dark styles
  markers' # markers => (maps # <<>> /\ maps[Len(maps)].styles = darkStyle)

\* C9: a call of the map initializer makes one map (zoom 13, hybrid, tilt
\* 45, heading 0, no default UI) centred on the Matterhorn, then replaces
\* its styles by the 8 dark rules, then places one marker, owned by the map,
\* at the map's centre and titled 'Matterhorn'; the marker is made only
\* after the map is there and styled; called once, it leaves one map and one
\* marker.
C9_MapInitializer == []C9_OneMapOneMarker /\ [][C9_Steps]_vars

\* the callback has run, with the counters and the toggle in use
C9_Witness ==
  /\ mapsCallback = "invoked"
  /\ mapPc = "idle"
  /\ Len(markers) = 1
  /\ clickLog # <<>>

=============================================================================
